---- MODULE Spec2Model ----
(***************************************************************************)
(* Model of OnlinedataController (src/src/online/onlinedatacontroller.cpp) *)
(* of Little Navmap: the download chain status.txt -> whazzup.txt ->       *)
(* servers.txt, the recurring download timer and the aircraft cache.       *)
(*                                                                         *)
(* The controller runs on the Qt event loop.  Every handler is one atomic  *)
(* action.  A call made with QTimer::singleShot(0, ...) is not executed by *)
(* the handler: it is put in the event queue and runs as an action of its  *)
(* own (DeferredStartDownload, ShowMessageDialog).  The message box of     *)
(* downloadFailed is modal: while it is open the event loop still runs     *)
(* timers, deferred calls and the signals of the downloader, but the main  *)
(* window and the options dialog take no input.                            *)
(*                                                                         *)
(* HttpDownloader, OnlinedataManager, SimpleRectCache and the geometry     *)
(* helpers are not part of the file; they are modelled by their contract.  *)
(***************************************************************************)
EXTENDS Integers, Sequences, FiniteSets, TLC

VARIABLES
  od,                       \* OptionData: network, URLs, reload times
  manager,                  \* OnlinedataManager: status.txt results and client table
  downloader,               \* HttpDownloader: url set and reply in flight
  eventLoop,                \* queued singleShot(0) calls
  currentState,             \* OnlinedataController::currentState
  whazzupGzipped,           \* OnlinedataController::whazzupGzipped
  downloadTimer,            \* OnlinedataController::downloadTimer
  lastUpdateTime,           \* OnlinedataController::lastUpdateTime
  lastServerDownload,       \* OnlinedataController::lastServerDownload
  aircraftCache,            \* OnlinedataController::aircraftCache
  simulatorAiRegistrations, \* OnlinedataController::simulatorAiRegistrations
  aircraftByRectQuery,      \* OnlinedataController::aircraftByRectQuery is prepared (not nullptr)
  dialogs,                  \* open QMessageBox::warning calls of downloadFailed
  qHash,                    \* the bucket the hash table gives a registration (seed of the run)
  alive,                    \* the controller is not yet destroyed
  now,                      \* QDateTime::currentDateTime(), minutes
  emitted,                  \* signals emitted and queries run by the last step, in order
  lastOp                    \* the last handler and the branch it took

vars == <<od, manager, downloader, eventLoop, currentState, whazzupGzipped,
          downloadTimer, lastUpdateTime, lastServerDownload, aircraftCache,
          simulatorAiRegistrations, aircraftByRectQuery, dialogs, qHash, alive, now,
          emitted, lastOp>>

----------------------------------------------------------------------------
(* Bounds of the model *)

\* Deferred startDownload calls the event queue may hold at once
MaxQueued == 2
\* Failure dialogs that may be open (nested) at once
MaxDialogs == 1
\* Deferred showMessageDialog calls the event queue may hold at once
MaxMessages == 1
\* Clock: first value, step of one Tick, last value (minutes since the epoch)
StartNow == 20
TickMin == 5
MaxNow == 40

(* Program constants *)

MIN_SERVER_DOWNLOAD_INTERVAL_MIN == 15
\* atools::geo::nmToMeter(30) truncated to int
MIN_DISTANCE_DUPLICATE == 55560
queryMaxRows == 5000
\* QDateTime::fromSecsSinceEpoch(0)
Epoch == 0

----------------------------------------------------------------------------
(* Values *)

NONE == "NONE"
DOWNLOADING_STATUS == "DOWNLOADING_STATUS"
DOWNLOADING_WHAZZUP == "DOWNLOADING_WHAZZUP"
DOWNLOADING_WHAZZUP_SERVERS == "DOWNLOADING_WHAZZUP_SERVERS"
States == {NONE, DOWNLOADING_STATUS, DOWNLOADING_WHAZZUP, DOWNLOADING_WHAZZUP_SERVERS}

ONLINE_NONE == "ONLINE_NONE"
ONLINE_VATSIM == "ONLINE_VATSIM"
ONLINE_IVAO == "ONLINE_IVAO"
ONLINE_CUSTOM_STATUS == "ONLINE_CUSTOM_STATUS"
ONLINE_CUSTOM == "ONLINE_CUSTOM"
Networks == {ONLINE_NONE, ONLINE_VATSIM, ONLINE_IVAO, ONLINE_CUSTOM_STATUS, ONLINE_CUSTOM}

\* URLs; the empty string is QString()
NoUrl == ""
StatusUrl == "http://status"
WhazzupUrl == "http://whazzup"
WhazzupUrlStatus == "http://whazzup-from-status"
VoiceUrl == "http://servers"

SigClientAndAtc == "onlineClientAndAtcUpdated(true,true)"
SigServers == "onlineServersUpdated(true,true)"
SigNetwork == "onlineNetworkChanged()"
\* The database is asked: one entry of emitted for each executed query
SqlExec == "aircraftByRectQuery->exec()"

----------------------------------------------------------------------------
\* A signed overflow is undefined behaviour. What the program makes of an int
\* product of startDownloadTimer that overflowed, chosen anew at every call:
\* WRAPS, the low 32 bits are read as int; UNSIGNED, the timer keeps the low 32
\* bits and setInterval, inlined, reads them without sign; WIDENS, the timer keeps
\* the low 32 bits and setInterval, inlined, reads the whole product from a wider
\* register (both seen at -O1, -O2, -O3); TRAPS, the process ends (-ftrapv, a
\* sanitizer). Unset: the caller made no choice, no product may overflow.
WRAPS == "wraps"
UNSIGNED == "unsigned"
WIDENS == "widens"
TRAPS == "traps"
Outcomes == {WRAPS, UNSIGNED, WIDENS, TRAPS}
Unset == "unset"

(* The controller, its collaborators and the event queue as one record; overflow
   and trapped belong to the call of one handler *)

Cur ==
  [od |-> od, manager |-> manager, downloader |-> downloader, eventLoop |-> eventLoop,
   currentState |-> currentState, whazzupGzipped |-> whazzupGzipped,
   downloadTimer |-> downloadTimer, lastUpdateTime |-> lastUpdateTime,
   lastServerDownload |-> lastServerDownload, aircraftCache |-> aircraftCache,
   simulatorAiRegistrations |-> simulatorAiRegistrations,
   aircraftByRectQuery |-> aircraftByRectQuery, dialogs |-> dialogs, qHash |-> qHash,
   alive |-> alive, overflow |-> Unset, trapped |-> FALSE,
   now |-> now, emitted |-> emitted]

\* The next state is the record s
Becomes(s) ==
  /\ od' = s.od
  /\ manager' = s.manager
  /\ downloader' = s.downloader
  /\ eventLoop' = s.eventLoop
  /\ currentState' = s.currentState
  /\ whazzupGzipped' = s.whazzupGzipped
  /\ downloadTimer' = s.downloadTimer
  /\ lastUpdateTime' = s.lastUpdateTime
  /\ lastServerDownload' = s.lastServerDownload
  /\ aircraftCache' = s.aircraftCache
  /\ simulatorAiRegistrations' = s.simulatorAiRegistrations
  /\ aircraftByRectQuery' = s.aircraftByRectQuery
  /\ dialogs' = s.dialogs
  /\ qHash' = s.qHash
  /\ alive' = s.alive
  /\ now' = s.now
  /\ emitted' = s.emitted

\* A handler starts with no signal emitted
Enter(s) == [s EXCEPT !.emitted = <<>>]

Emit(s, sig) == [s EXCEPT !.emitted = Append(@, sig)]

\* QHash<QString, Pos>(): the value of each key and the keys in the order of
\* their insertion, the order a chain of the hash table keeps
NoRegistrations == [value |-> [r \in {} |-> 0], order |-> <<>>]

\* Marble::GeoDataLatLonBox(), an empty rectangle, and no map layer
NoRect == <<>>
NoLayer == ""

\* SimpleRectCache::clear
CacheClear(s) ==
  [s EXCEPT !.aircraftCache = [list |-> <<>>, curRect |-> NoRect, curLayer |-> NoLayer]]

----------------------------------------------------------------------------
(* HttpDownloader *)

\* HttpDownloader::cancelDownload: the reply in flight is dropped, no signal is sent
CancelDownload(s) == [s EXCEPT !.downloader.reply = NoUrl]

\* HttpDownloader::setUrl
SetUrl(s, url) == [s EXCEPT !.downloader.url = url]

\* HttpDownloader::startDownload: a running download is replaced by the new one
StartDownload(s) == [CancelDownload(s) EXCEPT !.downloader.reply = s.downloader.url]

\* QTimer::singleShot(0, downloader, &HttpDownloader::startDownload)
SingleShotStartDownload(s) == [s EXCEPT !.eventLoop.startDownload = @ + 1]

\* QTimer::singleShot(0, this, &OnlinedataController::showMessageDialog)
SingleShotShowMessageDialog(s) == [s EXCEPT !.eventLoop.showMessage = @ + 1]

----------------------------------------------------------------------------
(* OnlinedataManager *)

\* OnlinedataManager::readFromStatus: the status file replaces what was read before
ReadFromStatus(s, status) ==
  [s EXCEPT !.manager.whazzupUrlFromStatus = status.whazzupUrl,
            !.manager.gzipped = (status.whazzupUrl # NoUrl /\ status.gzipped),
            !.manager.whazzupVoiceUrlFromStatus = status.voiceUrl]

\* OnlinedataManager::getMessageFromStatus is not empty
HasMessageFromStatus(status) == status.message

\* OnlinedataManager::getWhazzupUrlFromStatus(gzipped): returns the URL and sets the flag
GetWhazzupUrlFromStatus(s) == s.manager.whazzupUrlFromStatus

GetWhazzupGzipped(s) == s.manager.gzipped

\* atools::zip::gzipDecompress, or the data as it is: the text handed to the parser.
\* Compressed data read as text and plain data decompressed are both unreadable.
WhazzupData(s, data) ==
  IF s.whazzupGzipped = data.gzipped
  THEN data
  ELSE [data EXCEPT !.newer = FALSE]

\* OnlinedataManager::readFromWhazzup returns true if the file is newer than the last one
ReadFromWhazzupAccepts(text) == text.newer

\* OnlinedataManager::readFromWhazzup: a newer file replaces the client table
ReadFromWhazzup(s, text) ==
  IF ReadFromWhazzupAccepts(text)
  THEN [s EXCEPT !.manager.clients = text.clients,
                 !.manager.reloadMinutesFromWhazzup = text.reloadMinutes]
  ELSE s

\* OnlinedataManager::resetForNewOptions
ResetForNewOptions(s) ==
  [s EXCEPT !.manager.whazzupUrlFromStatus = NoUrl,
            !.manager.gzipped = FALSE,
            !.manager.whazzupVoiceUrlFromStatus = NoUrl]

\* OnlinedataManager::clearData
ClearData(s) == [s EXCEPT !.manager.clients = <<>>]

----------------------------------------------------------------------------
(* OnlinedataController *)

\* QTimer::stop
TimerStop(s) == [s EXCEPT !.downloadTimer.active = FALSE]

\* OnlinedataController::stopAllProcesses
stopAllProcesses(s) ==
  LET s1 == CancelDownload(s)
      s2 == TimerStop(s1)
      s3 == [s2 EXCEPT !.currentState = NONE]
  IN [s3 EXCEPT !.simulatorAiRegistrations = NoRegistrations]

\* The product of two int as the 32 bit multiplication leaves it in the register
\* (the low 32 bits of the product read as int), for 0 <= b < 2^15; computed in
\* halves of 16 bit
Mul32(a, b) ==
  LET lo == (a % 65536) * b
      hi == (((a \div 65536) % 65536) * b + lo \div 65536) % 65536
  IN IF hi >= 32768 THEN (hi - 65536) * 65536 + (lo % 65536)
     ELSE hi * 65536 + (lo % 65536)

\* The product of the int a and b leaves the range of int (b > 0): signed overflow,
\* undefined behaviour
Overflows(a, b) ==
  LET most == 2147483647 \div b
      least == IF 2147483647 % b = b - 1 THEN -(most + 1) ELSE -most
  IN a > most \/ a < least

\* The branch of L479: the custom networks take the reload seconds of the options
customBranch(s) ==
  s.od.network = ONLINE_CUSTOM \/ s.od.network = ONLINE_CUSTOM_STATUS

\* intervalSeconds * 1000 as setInterval reads it: int + high * 2^32, int the low
\* 32 bits that the timer keeps; the whole product is taken in halves of 16 bit
Times(s, a, b) ==
  LET lo == (a % 65536) * b
      upper == (a \div 65536) * b + lo \div 65536
      whole == upper \div 65536 + (IF upper % 65536 >= 32768 THEN 1 ELSE 0)
  IN [int |-> Mul32(a, b),
      high |-> IF ~Overflows(a, b)
               THEN 0
               ELSE CASE s.overflow = WIDENS -> whole
                      [] s.overflow = UNSIGNED -> IF Mul32(a, b) < 0 THEN 1 ELSE 0
                      [] s.overflow \in {WRAPS, TRAPS} -> 0]

Max(a, b) == IF a >= b THEN a ELSE b

\* The interval of startDownloadTimer in seconds
intervalSeconds(s) ==
  IF customBranch(s)
  THEN s.od.reloadTimeSeconds
  ELSE IF s.od.reloadTimeSecondsConfig = -1
       THEN Max(Mul32(s.manager.reloadMinutesFromWhazzup, 60), 60)
       ELSE Max(s.od.reloadTimeSecondsConfig, 60)

\* One of the two int products of startDownloadTimer (L493, L506) overflows
overflows(s) ==
  \/ /\ ~customBranch(s)
     /\ s.od.reloadTimeSecondsConfig = -1
     /\ Overflows(s.manager.reloadMinutesFromWhazzup, 60)
  \/ Overflows(intervalSeconds(s), 1000)

\* The overflow ends the process
traps(s) == overflows(s) /\ (CASE s.overflow \in Outcomes -> s.overflow = TRAPS)

\* QTimer::setInterval and QTimer::start (active) or not: interval is the int the
\* timer keeps, high what the inlined read adds to it
Timer(active, ms) == [active |-> active, interval |-> ms.int, high |-> ms.high]

\* Faulty variant: the interval is set but the timer is not started
startDownloadTimer_NotStarted(s) ==
  LET s1 == TimerStop(s)
  IN IF traps(s1)
     THEN [s1 EXCEPT !.trapped = TRUE]
     ELSE [s1 EXCEPT !.downloadTimer =
             Timer(FALSE, Times(s1, intervalSeconds(s1), 1000))]

\* OnlinedataController::startDownloadTimer
startDownloadTimer(s) ==
  LET s1 == TimerStop(s)
  IN IF traps(s1)
     THEN [s1 EXCEPT !.trapped = TRUE]
     ELSE [s1 EXCEPT !.downloadTimer =
             Timer(TRUE, Times(s1, intervalSeconds(s1), 1000))]

\* Faulty variant: status.txt is fetched again although its whazzup URL is known
chooseDownload_StatusAgain(onlineStatusUrl, onlineWhazzupUrl, whazzupUrlFromStatus) ==
  IF onlineStatusUrl # NoUrl
  THEN [url |-> onlineStatusUrl, state |-> DOWNLOADING_STATUS]
  ELSE IF onlineWhazzupUrl # NoUrl \/ whazzupUrlFromStatus # NoUrl
       THEN [url |-> IF whazzupUrlFromStatus = NoUrl
                     THEN onlineWhazzupUrl ELSE whazzupUrlFromStatus,
             state |-> DOWNLOADING_WHAZZUP]
       ELSE [url |-> NoUrl, state |-> NONE]

\* The URL and the state startDownloadInternal chooses
chooseDownload(onlineStatusUrl, onlineWhazzupUrl, whazzupUrlFromStatus) ==
  IF whazzupUrlFromStatus = NoUrl /\ onlineStatusUrl # NoUrl
  THEN [url |-> onlineStatusUrl, state |-> DOWNLOADING_STATUS]
  ELSE IF onlineWhazzupUrl # NoUrl \/ whazzupUrlFromStatus # NoUrl
       THEN [url |-> IF whazzupUrlFromStatus = NoUrl
                     THEN onlineWhazzupUrl ELSE whazzupUrlFromStatus,
             state |-> DOWNLOADING_WHAZZUP]
       ELSE [url |-> NoUrl, state |-> NONE]

\* startDownloadInternal with a network: the download chosen is queued
startChain(s) ==
  LET whazzupUrlFromStatus == GetWhazzupUrlFromStatus(s)
      s2 == [s EXCEPT !.whazzupGzipped = GetWhazzupGzipped(s)]
  IN IF s2.currentState = NONE
     THEN LET c == chooseDownload(s2.od.statusUrl, s2.od.whazzupUrl, whazzupUrlFromStatus)
              s3 == [s2 EXCEPT !.currentState = c.state]
          IN IF c.url # NoUrl
             THEN SingleShotStartDownload(SetUrl(s3, c.url))
             ELSE s3
     ELSE s2

\* Faulty variant: the network ONLINE_NONE is not checked
startDownloadInternal_AnyNetwork(s) == startChain(stopAllProcesses(s))

\* OnlinedataController::startDownloadInternal
startDownloadInternal(s) ==
  LET s1 == stopAllProcesses(s)
  IN IF s1.od.network = ONLINE_NONE
     THEN s1
     ELSE startChain(s1)

\* OnlinedataController::startProcessing
startProcessing(s) == startDownloadInternal(s)

\* Faulty variant: the time of the update is not set
finishCycle_NoUpdateTime(s) ==
  [startDownloadTimer(s) EXCEPT !.currentState = NONE]

\* The end of a download cycle: timer for the next one, state and time of the update
finishCycle(s) ==
  LET s1 == startDownloadTimer(s)
      s2 == [s1 EXCEPT !.currentState = NONE]
  IN [s2 EXCEPT !.lastUpdateTime = s2.now]

\* Faulty variant: the servers are fetched with every whazzup file
serverDownloadDue_Always(s) == TRUE

\* lastServerDownload < QDateTime::currentDateTime().addSecs(-MIN_SERVER_DOWNLOAD_INTERVAL_MIN * 60)
serverDownloadDue(s) == s.lastServerDownload < s.now - MIN_SERVER_DOWNLOAD_INTERVAL_MIN

\* downloadFinished, currentState == DOWNLOADING_STATUS
finishedStatus(s, data) ==
  LET s1 == ReadFromStatus(s, data)
      whazzupUrlFromStatus == GetWhazzupUrlFromStatus(s1)
      s2 == [s1 EXCEPT !.whazzupGzipped = GetWhazzupGzipped(s1)]
      s3 == IF HasMessageFromStatus(data) THEN SingleShotShowMessageDialog(s2) ELSE s2
  IN IF whazzupUrlFromStatus # NoUrl
     THEN SingleShotStartDownload(
            SetUrl([s3 EXCEPT !.currentState = DOWNLOADING_WHAZZUP], whazzupUrlFromStatus))
     ELSE finishCycle(s3)

\* Faulty variant: the aircraft cache is kept
clientsUpdated_KeepsCache(s) ==
  Emit([s EXCEPT !.simulatorAiRegistrations = NoRegistrations], SigClientAndAtc)

\* The clients are new: both caches are dropped and the views are told
clientsUpdated(s) ==
  LET s1 == CacheClear(s)
      s2 == [s1 EXCEPT !.simulatorAiRegistrations = NoRegistrations]
  IN Emit(s2, SigClientAndAtc)

\* Faulty variant: a file that is not newer ends the cycle like a newer one
finishedWhazzup_StaleUpdates(s, data) ==
  LET whazzupData == WhazzupData(s, data)
      s1 == ReadFromWhazzup(s, whazzupData)
      whazzupVoiceUrlFromStatus == s1.manager.whazzupVoiceUrlFromStatus
  IN IF ReadFromWhazzupAccepts(whazzupData)
        /\ whazzupVoiceUrlFromStatus # NoUrl /\ serverDownloadDue(s1)
     THEN SingleShotStartDownload(
            SetUrl([s1 EXCEPT !.currentState = DOWNLOADING_WHAZZUP_SERVERS],
                   whazzupVoiceUrlFromStatus))
     ELSE clientsUpdated(finishCycle(s1))

\* downloadFinished, currentState == DOWNLOADING_WHAZZUP
finishedWhazzup(s, data) ==
  LET whazzupData == WhazzupData(s, data)
      s1 == ReadFromWhazzup(s, whazzupData)
  IN IF ReadFromWhazzupAccepts(whazzupData)
     THEN LET whazzupVoiceUrlFromStatus == s1.manager.whazzupVoiceUrlFromStatus
          IN IF whazzupVoiceUrlFromStatus # NoUrl /\ serverDownloadDue(s1)
             THEN SingleShotStartDownload(
                    SetUrl([s1 EXCEPT !.currentState = DOWNLOADING_WHAZZUP_SERVERS],
                           whazzupVoiceUrlFromStatus))
             ELSE clientsUpdated(finishCycle(s1))
     ELSE finishCycle(s1)

\* Faulty variant: the time of the servers download is not set
finishedServers_NoServerTime(s, data) ==
  Emit(clientsUpdated(finishCycle(s)), SigServers)

\* downloadFinished, currentState == DOWNLOADING_WHAZZUP_SERVERS
finishedServers(s, data) ==
  LET s1 == [s EXCEPT !.lastServerDownload = s.now]
      s2 == clientsUpdated(finishCycle(s1))
  IN Emit(s2, SigServers)

\* OnlinedataController::downloadFinished
downloadFinished(s, data) ==
  IF s.currentState = DOWNLOADING_STATUS THEN finishedStatus(s, data)
  ELSE IF s.currentState = DOWNLOADING_WHAZZUP THEN finishedWhazzup(s, data)
  ELSE IF s.currentState = DOWNLOADING_WHAZZUP_SERVERS THEN finishedServers(s, data)
  ELSE s

\* Faulty variant: the chain is started again before the message box is shown
downloadFailed_RestartsAtOnce(s) ==
  [startProcessing(stopAllProcesses(s)) EXCEPT !.dialogs = @ + 1]

\* OnlinedataController::downloadFailed up to the message box
downloadFailed(s) ==
  LET s1 == stopAllProcesses(s)
  IN [s1 EXCEPT !.dialogs = @ + 1]

\* OnlinedataController::downloadFailed after the message box was closed
downloadFailedRetry(s) == startProcessing([s EXCEPT !.dialogs = @ - 1])

\* Faulty variant: the time of the last servers download is kept
optionsChanged_KeepsServerTime(s) ==
  LET s1 == ResetForNewOptions(s)
      s2 == stopAllProcesses(s1)
      s3 == [s2 EXCEPT !.whazzupGzipped = FALSE]
      s4 == ClearData(s3)
      s5 == CacheClear(s4)
      s6 == [s5 EXCEPT !.simulatorAiRegistrations = NoRegistrations]
      s7 == Emit(Emit(Emit(s6, SigClientAndAtc), SigServers), SigNetwork)
      s8 == [s7 EXCEPT !.lastUpdateTime = Epoch]
  IN startDownloadInternal(s8)

\* OnlinedataController::optionsChanged
optionsChanged(s) ==
  LET s1 == ResetForNewOptions(s)
      s2 == stopAllProcesses(s1)
      s3 == [s2 EXCEPT !.whazzupGzipped = FALSE]
      s4 == ClearData(s3)
      s5 == CacheClear(s4)
      s6 == [s5 EXCEPT !.simulatorAiRegistrations = NoRegistrations]
      s7 == Emit(Emit(Emit(s6, SigClientAndAtc), SigServers), SigNetwork)
      s8 == [s7 EXCEPT !.lastUpdateTime = Epoch, !.lastServerDownload = Epoch]
  IN startDownloadInternal(s8)

----------------------------------------------------------------------------
(* The aircraft cache.  Positions are on the equator, longitude in tenths of a
   degree: one unit is 6 nautical miles or 11112 metres. *)

LonMin == -1800
LonMax == 1800
MeterPerUnit == 11112

Abs(x) == IF x < 0 THEN -x ELSE x

\* atools::geo::Pos::distanceMeterTo on the equator, the short way round
distanceMeterTo(a, b) ==
  LET d == Abs(a - b)
  IN MeterPerUnit * (IF d > LonMax THEN (LonMax - LonMin) - d ELSE d)

\* query::inflateQueryRect with queryRectInflationFactor 0.2 and
\* queryRectInflationIncrement 0.1 degrees; a rectangle is <<west, east>>
Width(rect) == IF rect[1] <= rect[2] THEN rect[2] - rect[1]
               ELSE (LonMax - rect[1]) + (rect[2] - LonMin)

WrapLon(x) == IF x < LonMin THEN x + (LonMax - LonMin)
              ELSE IF x > LonMax THEN x - (LonMax - LonMin) ELSE x

inflateQueryRect(rect) ==
  LET d == (Width(rect) * 2) \div 10 + 1
  IN IF Width(rect) + 2 * d >= LonMax - LonMin
     THEN <<LonMin, LonMax>>
     ELSE <<WrapLon(rect[1] - d), WrapLon(rect[2] + d)>>

\* query::splitAtAntiMeridian: the inflated rectangle, in two parts if it crosses
\* the anti-meridian
splitAtAntiMeridian(rect) ==
  LET r == inflateQueryRect(rect)
  IN IF r[1] <= r[2] THEN <<r>> ELSE <<(<<r[1], LonMax>>), (<<LonMin, r[2]>>)>>

InRect(r, lon) == r[1] <= lon /\ lon <= r[2]

\* GeoDataLatLonBox::contains for rectangles
RectContains(outer, inner) ==
  IF outer[1] <= outer[2]
  THEN inner[1] <= inner[2] /\ outer[1] <= inner[1] /\ inner[2] <= outer[2]
  ELSE IF inner[1] <= inner[2]
       THEN inner[1] >= outer[1] \/ inner[2] <= outer[2]
       ELSE inner[1] >= outer[1] /\ inner[2] <= outer[2]

\* SimpleRectCache::updateCache: a query that is not lazy drops the list if the
\* rectangle left the inflated cached one or the layer changed
updateCache(s, rect, mapLayer, lazy) ==
  IF lazy
  THEN s
  ELSE LET c == s.aircraftCache
       IN IF \/ c.curRect = NoRect
             \/ ~RectContains(inflateQueryRect(c.curRect), rect)
             \/ c.curLayer = NoLayer
             \/ c.curLayer # mapLayer
          THEN [s EXCEPT !.aircraftCache =
                  [list |-> <<>>, curRect |-> rect, curLayer |-> mapLayer]]
          ELSE s

\* SimpleRectCache::validate: not more than queryMaxRows rows
validate(s, maxRows) ==
  IF Len(s.aircraftCache.list) > maxRows
  THEN [s EXCEPT !.aircraftCache.list = SubSeq(@, 1, maxRows)]
  ELSE s

\* QHash::insert: a new key goes to the end of its chain, a key that is there
\* gets the new value
HashInsert(h, key, value) ==
  [value |-> [k \in DOMAIN h.value \cup {key} |-> IF k = key THEN value ELSE h.value[k]],
   order |-> IF key \in DOMAIN h.value THEN h.order ELSE Append(h.order, key)]

\* QHash::remove
HashRemove(h, key) ==
  LET other(k) == k # key
  IN [value |-> [k \in DOMAIN h.value \ {key} |-> h.value[k]],
      order |-> SelectSeq(h.order, other)]

\* Buckets of the hash table in the model
NumBuckets == 3

\* QHash::keys: bucket after bucket, each chain in its order
RECURSIVE keysFrom(_, _, _)
keysFrom(s, h, bucket) ==
  LET chained(k) == s.qHash[k] = bucket
  IN IF bucket > NumBuckets
     THEN <<>>
     ELSE SelectSeq(h.order, chained) \o keysFrom(s, h, bucket + 1)

keys(s, h) == keysFrom(s, h, 1)

RECURSIVE InsertAircraft(_, _)
InsertAircraft(h, aircraft) ==
  IF aircraft = <<>>
  THEN h
  ELSE InsertAircraft(HashInsert(h, Head(aircraft).registration, Head(aircraft).position),
                      Tail(aircraft))

\* The registrations of the user aircraft and, if connected, the AI aircraft
curRegistrations(sim) ==
  LET user == HashInsert(NoRegistrations, sim.user.registration, sim.user.position)
      all == IF sim.connected \/ sim.user.debug
             THEN InsertAircraft(user, sim.ai)
             ELSE user
  IN HashRemove(all, "")

\* Faulty variant: an online aircraft at exactly MIN_DISTANCE_DUPLICATE is kept
keepAircraft_KeepsAtLimit(regs, aircraft) ==
  \/ aircraft.registration \notin DOMAIN regs
  \/ distanceMeterTo(aircraft.position, regs[aircraft.registration]) >= MIN_DISTANCE_DUPLICATE

\* An online aircraft is kept unless a simulator aircraft of the same registration is close
keepAircraft(regs, aircraft) ==
  \/ aircraft.registration \notin DOMAIN regs
  \/ distanceMeterTo(aircraft.position, regs[aircraft.registration]) > MIN_DISTANCE_DUPLICATE

\* select * from client where lonx between :leftx and :rightx, filtered
queryRect(r, clients, regs) ==
  LET appended(c) == InRect(r, c.position) /\ keepAircraft(regs, c)
  IN SelectSeq(clients, appended)

RECURSIVE queryRects(_, _, _)
queryRects(rects, clients, regs) ==
  IF rects = <<>>
  THEN <<>>
  ELSE queryRect(Head(rects), clients, regs) \o queryRects(Tail(rects), clients, regs)

\* One SqlExec for each rectangle queried
execs(rects) == [i \in 1..Len(rects) |-> SqlExec]

\* OnlinedataController::getAircraft to the end of the query loop (L371-421)
getAircraftAppended(s, rect, mapLayer, lazy, sim) ==
  LET s1 == updateCache(s, rect, mapLayer, lazy)
      regs == curRegistrations(sim)
      s2 == IF keys(s1, s1.simulatorAiRegistrations) # keys(s1, regs)
            THEN CacheClear(s1) ELSE s1
  IN IF s2.aircraftCache.list = <<>> /\ ~lazy
     THEN [s2 EXCEPT !.aircraftCache.list =
                       queryRects(splitAtAntiMeridian(rect), s2.manager.clients, regs.value),
                     !.emitted = @ \o execs(splitAtAntiMeridian(rect)),
                     !.simulatorAiRegistrations = regs]
     ELSE s2

\* OnlinedataController::getAircraft
getAircraft(s, rect, mapLayer, lazy, sim) ==
  validate(getAircraftAppended(s, rect, mapLayer, lazy, sim), queryMaxRows)

\* OnlinedataController::deInitQueries (also the first call of the destructor):
\* the cache is emptied, the prepared query deleted; simulatorAiRegistrations stays
deInitQueries(s) == [CacheClear(s) EXCEPT !.aircraftByRectQuery = FALSE]

\* OnlinedataController::~OnlinedataController: the queries go, the downloader is
\* deleted with its reply in flight, the manager, which lives on, loses its data;
\* the timer and the calls queued for the controller end with it
destructor(s) ==
  LET s1 == deInitQueries(s)
      s2 == CancelDownload(s1)
      s3 == ClearData(s2)
  IN [s3 EXCEPT !.alive = FALSE]

\* OnlinedataController::initQueries
initQueries(s) == [deInitQueries(s) EXCEPT !.aircraftByRectQuery = TRUE]

----------------------------------------------------------------------------------------------------------------------------------------
(* Inputs *)

\* OptionData as the options dialog leaves it
Options ==
  [network : {ONLINE_NONE, ONLINE_VATSIM, ONLINE_CUSTOM},
   statusUrl : {NoUrl, StatusUrl}, whazzupUrl : {NoUrl, WhazzupUrl},
   reloadTimeSeconds : {120}, reloadTimeSecondsConfig : {-1}]

\* status.txt as the parser reads it
StatusFiles ==
  [whazzupUrl : {NoUrl, WhazzupUrlStatus}, gzipped : BOOLEAN,
   voiceUrl : {NoUrl, VoiceUrl}, message : BOOLEAN]

Client(id, registration, position) ==
  [id |-> id, registration |-> registration, position |-> position]

ClientTable == <<Client(1, "N1", 2), Client(2, "N2", 50)>>

\* whazzup.txt as sent and as the parser reads it
WhazzupFiles ==
  [gzipped : BOOLEAN, newer : BOOLEAN, clients : {ClientTable}, reloadMinutes : {2}]

\* servers.txt
ServersFiles == {"servers"}

FilesFor(state, statusFiles, whazzupFiles) ==
  IF state = DOWNLOADING_STATUS THEN statusFiles
  ELSE IF state = DOWNLOADING_WHAZZUP THEN whazzupFiles
  ELSE ServersFiles

Aircraft(registration, position) ==
  [registration |-> registration, position |-> position, debug |-> FALSE]

\* The registrations of the simulator aircraft of all inputs
Registrations == {"N1", "N2", "N3"}

\* Every way the registrations share the buckets of the hash table, the buckets
\* numbered as the registrations first come to them
HashLayouts ==
  {layout \in [Registrations -> 1..NumBuckets] :
     /\ layout["N1"] = 1
     /\ layout["N2"] <= 2
     /\ layout["N3"] <= layout["N2"] + 1}

\* Each registration in a bucket of its own
NoCollision == [r \in Registrations |-> IF r = "N1" THEN 1 ELSE IF r = "N2" THEN 2 ELSE 3]

\* NavApp: user aircraft, connection and AI aircraft
Simulators ==
  {[user |-> Aircraft("N1", 0), connected |-> TRUE, ai |-> <<Aircraft("N2", 0)>>]}

Rects == {<<0, 100>>}
Layers == {"layer"}

\* The inputs of the specification with a running clock: one network with
\* status.txt, plain files without message
TimeOptions ==
  {[network |-> ONLINE_VATSIM, statusUrl |-> StatusUrl, whazzupUrl |-> NoUrl,
    reloadTimeSeconds |-> 120, reloadTimeSecondsConfig |-> -1]}

TimeStatusFiles ==
  [whazzupUrl : {NoUrl, WhazzupUrlStatus}, gzipped : {FALSE},
   voiceUrl : {NoUrl, VoiceUrl}, message : {FALSE}]

TimeWhazzupFiles ==
  [gzipped : {FALSE}, newer : BOOLEAN, clients : {ClientTable}, reloadMinutes : {2}]

\* The inputs of the specification of the timer interval: every network with a
\* whazzup URL, reload times below and above 60 seconds and two whose milliseconds
\* are more than an int holds (the low 32 bits negative and positive), whazzup files with reload minutes below and above
\* one minute
TimerOptions ==
  [network : Networks, statusUrl : {NoUrl}, whazzupUrl : {WhazzupUrl},
   reloadTimeSeconds : {30, 120},
   reloadTimeSecondsConfig : {-2, -1, 30, 500, 2147484, 4294968}]

TimerWhazzupFiles ==
  [gzipped : {FALSE}, newer : BOOLEAN, clients : {ClientTable},
   reloadMinutes : {0, 1, 3, -536870912}]

\* The inputs of the specification of the map queries: one network with a whazzup
\* URL; online aircraft 24, 30 and 36 nautical miles east of longitude 0, one with a
\* registration no simulator has, two near the anti-meridian; the simulator with
\* its aircraft at 0, the same with the AI aircraft listed in another order, with
\* the user aircraft moved, not connected, and without a registration; a rectangle around 0 and one across the anti-meridian
QueryOptions ==
  {[network |-> ONLINE_VATSIM, statusUrl |-> NoUrl, whazzupUrl |-> WhazzupUrl,
    reloadTimeSeconds |-> 120, reloadTimeSecondsConfig |-> -1]}

QueryTable ==
  <<Client(1, "N1", 4), Client(2, "N2", 5), Client(3, "N3", 6), Client(4, "N9", 1),
    Client(5, "N2", 1795), Client(6, "N3", -1794)>>

QueryWhazzupFiles ==
  [gzipped : {FALSE}, newer : BOOLEAN, clients : {QueryTable}, reloadMinutes : {2}]

QuerySimulators ==
  {[user |-> Aircraft("N1", 0), connected |-> TRUE,
    ai |-> <<Aircraft("N2", 0), Aircraft("N3", 0)>>],
   [user |-> Aircraft("N1", 0), connected |-> TRUE,
    ai |-> <<Aircraft("N3", 0), Aircraft("N2", 0)>>],
   [user |-> Aircraft("N1", 20), connected |-> TRUE,
    ai |-> <<Aircraft("N2", -1800), Aircraft("N3", 1800)>>],
   [user |-> Aircraft("N1", 0), connected |-> FALSE,
    ai |-> <<Aircraft("N2", 0), Aircraft("N3", 0)>>],
   [user |-> Aircraft("", 0), connected |-> FALSE, ai |-> <<>>]}

QueryRects == {<<-10, 10>>, <<1700, -1700>>}

\* The inputs of the specification of the row limit: a client table of one row
\* more than queryMaxRows, its aircraft by turns east and west of the
\* anti-meridian, the first of them with a registration of the simulator; a
\* rectangle across the anti-meridian that holds them all in its two parts and
\* the world in one rectangle
RowsTable ==
  [i \in 1..(queryMaxRows + 1) |->
     Client(i, IF i = 1 THEN "N2" ELSE "N9", IF i % 2 = 1 THEN 1795 ELSE -1795)]

RowsWhazzupFiles ==
  [gzipped : {FALSE}, newer : BOOLEAN, clients : {RowsTable}, reloadMinutes : {2}]

RowsSimulators ==
  {[user |-> Aircraft("N1", 0), connected |-> TRUE, ai |-> <<Aircraft("N2", 0)>>]}

RowsRects == {<<1700, -1700>>, <<-1500, 1500>>}

----------------
(* Actions *)

\* No getAircraft call and no download cycle on record
NoQuery ==
  [rect |-> NoRect, mapLayer |-> NoLayer, lazy |-> FALSE, regs |-> NoRegistrations.value,
   nonEmpty |-> FALSE, appended |-> 0]

NoCycle == [result |-> <<>>, keys |-> {}, stage |-> "none"]

\* lastOp of a handler: its name, for downloadFinished the state it found and what
\* readFromWhazzup returned.  Where the calls of getAircraft are on record (track)
\* also: for getAircraft its arguments, the registrations of the simulator,
\* whether the cache held aircraft before, and whether the call repeats a lazy
\* call made right before it on a cache with aircraft (same rectangle, layer and
\* registrations); for the steps of a download cycle that
\* the timer started right after a lazy getAircraft, what that call returned.
OpWith(name, track) ==
  [op |-> name, state |-> NONE, accepted |-> FALSE, track |-> track,
   query |-> NoQuery, cycle |-> NoCycle]

Op(name) == OpWith(name, lastOp.track)

InBounds(s) ==
  /\ s.eventLoop.startDownload <= MaxQueued
  /\ s.eventLoop.showMessage <= MaxMessages
  /\ s.dialogs <= MaxDialogs
  /\ s.now <= MaxNow

Step(s, op) ==
  /\ alive
  /\ \E next \in {IF s.trapped THEN [Enter(Cur) EXCEPT !.alive = FALSE] ELSE s} :
    /\ InBounds(next)
    /\ Becomes(next)
    /\ lastOp' = op

\* The main window calls startProcessing
StartProcessing ==
  /\ dialogs = 0
  /\ Step(startProcessing(Enter(Cur)), Op("startProcessing"))

\* downloadTimer times out: the slot is startDownloadInternal
Timeout ==
  /\ downloadTimer.active
  /\ Step(startDownloadInternal(Enter(Cur)),
          [Op("timeout") EXCEPT !.cycle =
             IF lastOp.op = "getAircraft" /\ lastOp.query.lazy
             THEN [result |-> aircraftCache.list, keys |-> DOMAIN lastOp.query.regs,
                   stage |-> "started"]
             ELSE NoCycle])

\* The options dialog was accepted with new options
OptionsChanged(options) ==
  /\ dialogs = 0
  /\ Step(optionsChanged(Enter([Cur EXCEPT !.od = options])), Op("optionsChanged"))

\* The event loop runs a queued HttpDownloader::startDownload
DeferredStartDownload ==
  /\ eventLoop.startDownload > 0
  /\ Step(StartDownload(Enter([Cur EXCEPT !.eventLoop.startDownload = @ - 1])),
          [Op("startDownload") EXCEPT !.cycle =
             IF lastOp.cycle.stage = "started" THEN lastOp.cycle ELSE NoCycle])

\* The event loop runs a queued showMessageDialog
ShowMessageDialog ==
  /\ eventLoop.showMessage > 0
  /\ Step(Enter([Cur EXCEPT !.eventLoop.showMessage = @ - 1]), Op("showMessageDialog"))

\* A download cycle on record after downloadFinished: it goes on from status.txt to
\* whazzup.txt, it is done if it ends without new data, else it is off the record
cycleAfter(cycle, state, accepted, next) ==
  IF cycle.stage # "started" THEN NoCycle
  ELSE IF state = DOWNLOADING_STATUS /\ next.currentState = DOWNLOADING_WHAZZUP THEN cycle
  ELSE IF /\ state \in {DOWNLOADING_STATUS, DOWNLOADING_WHAZZUP}
          /\ ~accepted
          /\ next.currentState = NONE
          /\ next.downloadTimer.active
       THEN [cycle EXCEPT !.stage = "done"]
  ELSE NoCycle

\* The reply in flight ends with data: signal HttpDownloader::downloadFinished
DownloadFinished(data) ==
  /\ downloader.reply # NoUrl
  /\ \E outcome \in Outcomes :
     LET accepted == currentState = DOWNLOADING_WHAZZUP
                     /\ ReadFromWhazzupAccepts(WhazzupData(Cur, data))
         next == downloadFinished([Enter(CancelDownload(Cur)) EXCEPT !.overflow = outcome],
                                  data)
     IN Step(next,
             [Op("downloadFinished") EXCEPT
                !.state = currentState,
                !.accepted = accepted,
                !.cycle = cycleAfter(lastOp.cycle, currentState, accepted, next)])

\* The reply in flight ends with an error: signal HttpDownloader::downloadFailed
DownloadFailed ==
  /\ downloader.reply # NoUrl
  /\ Step(downloadFailed(Enter(CancelDownload(Cur))), Op("downloadFailed"))

\* The user closes the message box of downloadFailed
Acknowledge ==
  /\ dialogs > 0
  /\ Step(downloadFailedRetry(Enter(Cur)), Op("acknowledge"))

\* The application has opened the database and prepares the queries
InitQueries ==
  /\ dialogs = 0
  /\ Step(initQueries(Enter(Cur)), Op("initQueries"))

\* The application is about to close the database and deletes the queries
DeInitQueries ==
  /\ dialogs = 0
  /\ Step(deInitQueries(Enter(Cur)), Op("deInitQueries"))

\* The application ends and deletes the controller
Destroy ==
  /\ dialogs = 0
  /\ Step(destructor(Enter(Cur)), Op("destructor"))

\* The map asks for the aircraft. A call that reaches aircraftByRectQuery->bindValue
\* while the query is nullptr ends the process: no step
GetAircraft(rect, mapLayer, lazy, sim) ==
  /\ rect # NoRect
  /\ getAircraft(Enter(Cur), rect, mapLayer, lazy, sim).emitted # <<>> => aircraftByRectQuery
  /\ Step(getAircraft(Enter(Cur), rect, mapLayer, lazy, sim),
          [Op("getAircraft") EXCEPT !.query =
             IF lastOp.track
             THEN [rect |-> rect, mapLayer |-> mapLayer, lazy |-> lazy,
                   regs |-> curRegistrations(sim).value,
                   nonEmpty |-> aircraftCache.list # <<>>,
                   appended |->
                     Len(getAircraftAppended(Enter(Cur), rect, mapLayer, lazy, sim)
                           .aircraftCache.list)]
             ELSE NoQuery])

\* Time passes
Tick ==
  /\ now + TickMin <= MaxNow
  /\ Step(Enter([Cur EXCEPT !.now = @ + TickMin]), Op("tick"))

\* The state after the constructor; both times are QDateTime(), which compares
\* like the epoch
InitState(options, layouts, track) ==
  /\ qHash \in layouts
  /\ alive = TRUE
  /\ od \in options
  /\ manager = [whazzupUrlFromStatus |-> NoUrl, gzipped |-> FALSE,
                whazzupVoiceUrlFromStatus |-> NoUrl,
                reloadMinutesFromWhazzup |-> 0, clients |-> <<>>]
  /\ downloader = [url |-> NoUrl, reply |-> NoUrl]
  /\ eventLoop = [startDownload |-> 0, showMessage |-> 0]
  /\ currentState = NONE
  /\ whazzupGzipped = FALSE
  /\ downloadTimer = [active |-> FALSE, interval |-> 0, high |-> 0]
  /\ lastUpdateTime = Epoch
  /\ lastServerDownload = Epoch
  /\ aircraftCache = [list |-> <<>>, curRect |-> NoRect, curLayer |-> NoLayer]
  /\ simulatorAiRegistrations = NoRegistrations
  /\ aircraftByRectQuery = FALSE
  /\ dialogs = 0
  /\ now = StartNow
  /\ emitted = <<>>
  /\ lastOp = OpWith("init", track)

\* The simulator of the specifications that start here lists its aircraft in one
\* order: the hash layouts do the same, one stands for all
InitWith(options) == InitState(options, {NoCollision}, FALSE)

Init == InitWith(Options)

\* The download chain under all options, the clock standing still
Next ==
  \/ StartProcessing
  \/ Timeout
  \/ \E options \in Options : OptionsChanged(options)
  \/ DeferredStartDownload
  \/ ShowMessageDialog
  \/ \E data \in FilesFor(currentState, StatusFiles, WhazzupFiles) : DownloadFinished(data)
  \/ DownloadFailed
  \/ Acknowledge
  \/ \E rect \in Rects, mapLayer \in Layers, lazy \in BOOLEAN, sim \in Simulators :
       GetAircraft(rect, mapLayer, lazy, sim)
  \/ InitQueries
  \/ Destroy

Spec == Init /\ [][Next]_vars

InitTime == InitWith(TimeOptions)

\* The download chain of one network with the clock running
NextTime ==
  \/ StartProcessing
  \/ Timeout
  \/ \E options \in TimeOptions : OptionsChanged(options)
  \/ DeferredStartDownload
  \/ \E data \in FilesFor(currentState, TimeStatusFiles, TimeWhazzupFiles) :
       DownloadFinished(data)
  \/ DownloadFailed
  \/ Acknowledge
  \/ \E rect \in Rects, mapLayer \in Layers, lazy \in BOOLEAN, sim \in Simulators :
       GetAircraft(rect, mapLayer, lazy, sim)
  \/ InitQueries
  \/ Tick

SpecTime == InitTime /\ [][NextTime]_vars

InitTimer == InitState(TimerOptions, {NoCollision}, FALSE)

\* The download chain that arms the timer, under all reload settings
NextTimer ==
  \/ StartProcessing
  \/ Timeout
  \/ \E options \in TimerOptions : OptionsChanged(options)
  \/ DeferredStartDownload
  \/ \E data \in FilesFor(currentState, TimeStatusFiles, TimerWhazzupFiles) :
       DownloadFinished(data)

SpecTimer == InitTimer /\ [][NextTimer]_vars

InitQuery == InitState(QueryOptions, HashLayouts, TRUE)

\* The map queries between the steps of the download chain, the calls of
\* getAircraft on record
NextQuery ==
  \/ StartProcessing
  \/ Timeout
  \/ \E options \in QueryOptions : OptionsChanged(options)
  \/ DeferredStartDownload
  \/ \E data \in FilesFor(currentState, TimeStatusFiles, QueryWhazzupFiles) :
       DownloadFinished(data)
  \/ \E rect \in QueryRects, mapLayer \in Layers, lazy \in BOOLEAN, sim \in QuerySimulators :
       GetAircraft(rect, mapLayer, lazy, sim)
  \/ InitQueries
  \/ DeInitQueries
  \/ Destroy

SpecQuery == InitQuery /\ [][NextQuery]_vars

InitRows == InitState(QueryOptions, {NoCollision}, TRUE)

\* The map queries on a client table of more than queryMaxRows rows
NextRows ==
  \/ StartProcessing
  \/ Timeout
  \/ DeferredStartDownload
  \/ \E data \in FilesFor(currentState, TimeStatusFiles, RowsWhazzupFiles) :
       DownloadFinished(data)
  \/ \E rect \in RowsRects, mapLayer \in Layers, lazy \in BOOLEAN, sim \in RowsSimulators :
       GetAircraft(rect, mapLayer, lazy, sim)
  \/ InitQueries

SpecRows == InitRows /\ [][NextRows]_vars

\* The options of the specifications with fairness: no network or one, with and
\* without the two URLs
LiveOptions ==
  [network : {ONLINE_NONE, ONLINE_VATSIM},
   statusUrl : {NoUrl, StatusUrl}, whazzupUrl : {NoUrl, WhazzupUrl},
   reloadTimeSeconds : {120}, reloadTimeSecondsConfig : {-1}]

InitLive == InitState(LiveOptions, {NoCollision}, FALSE)

\* The end of the reply in flight, with data or with an error
Complete ==
  \/ \E data \in FilesFor(currentState, StatusFiles, WhazzupFiles) :
       DownloadFinished(data)
  \/ DownloadFailed

\* The download chain of one network, the clock standing still
NextLive ==
  \/ StartProcessing
  \/ Timeout
  \/ \E options \in LiveOptions : OptionsChanged(options)
  \/ DeferredStartDownload
  \/ ShowMessageDialog
  \/ Complete
  \/ Acknowledge

\* The event loop runs what is queued, the timer fires when armed, every reply
\* ends, and the user closes every message box
SpecLive ==
  /\ InitLive /\ [][NextLive]_vars
  /\ WF_vars(DeferredStartDownload)
  /\ WF_vars(ShowMessageDialog)
  /\ WF_vars(Timeout)
  /\ WF_vars(Complete)
  /\ WF_vars(Acknowledge)

\* The main window calls startProcessing once, after the constructor
FirstStart == lastOp.op = "init" /\ StartProcessing

\* servers.txt arrives
ServersArrive ==
  /\ currentState = DOWNLOADING_WHAZZUP_SERVERS
  /\ \E data \in ServersFiles : DownloadFinished(data)

\* The download chain left alone after its start: timer, replies and message
\* boxes only
NextAlone ==
  \/ FirstStart
  \/ Timeout
  \/ DeferredStartDownload
  \/ ShowMessageDialog
  \/ Complete
  \/ Acknowledge

\* The fairness of SpecLive, and the download of servers.txt does not fail for ever
SpecAlone ==
  /\ InitLive /\ [][NextAlone]_vars
  /\ WF_vars(DeferredStartDownload)
  /\ WF_vars(ShowMessageDialog)
  /\ WF_vars(Timeout)
  /\ WF_vars(Complete)
  /\ WF_vars(Acknowledge)
  /\ SF_vars(ServersArrive)

----------------------------------------------------------------------------
(* Properties *)

\* Fetches on the way: deferred startDownload calls in the event queue and the
\* reply in flight
FetchesOutstanding ==
  eventLoop.startDownload + (IF downloader.reply # NoUrl THEN 1 ELSE 0)

\* The handlers that run startDownloadInternal
StartOps == {"startProcessing", "timeout", "optionsChanged", "acknowledge"}

\* The last step was downloadFinished in the given state
Finished(state) == lastOp.op = "downloadFinished" /\ lastOp.state = state

\* The end of a download cycle as a handler leaves it
Finalized == downloadTimer.active /\ currentState = NONE /\ lastUpdateTime = now

CachesCleared == aircraftCache.list = <<>> /\ simulatorAiRegistrations = NoRegistrations

\* C1: at most one fetch is outstanding at any time, a queued deferred startDownload
\* counted as one, whatever the order of start, timer, optionsChanged and the
\* signals of the downloader.
C1_OneFetchOutstanding == FetchesOutstanding <= 1

\* C2: whenever the download timer is armed the state is NONE and no fetch is queued
\* or in flight.
C2_TimerExcludesFetch ==
  downloadTimer.active => (currentState = NONE /\ FetchesOutstanding = 0)

\* C3: with the network "none" every run of startDownloadInternal leaves the state
\* NONE and issues no fetch: no URL is set, no startDownload is queued and nothing
\* is in flight.
C3_NoneStaysIdle ==
  [][(lastOp'.op \in StartOps /\ od'.network = ONLINE_NONE)
       => /\ currentState' = NONE
          /\ eventLoop'.startDownload = eventLoop.startDownload
          /\ downloader'.url = downloader.url
          /\ downloader'.reply = NoUrl]_vars

C3_Witness ==
  /\ lastOp.op = "optionsChanged"
  /\ od.network = ONLINE_NONE
  /\ od.statusUrl # NoUrl
  /\ eventLoop.startDownload > 0

\* C4: with a network other than "none" startDownloadInternal chooses by the URLs
\* alone: status.txt if no whazzup URL came from a status file and a status URL is
\* configured, else whazzup.txt from the URL of the status file or, without one, the
\* configured URL, else nothing: the state stays NONE, no fetch and no dialog.
C4_StartChoosesByUrls ==
  [][(lastOp'.op \in StartOps /\ od'.network # ONLINE_NONE)
       => IF manager'.whazzupUrlFromStatus = NoUrl /\ od'.statusUrl # NoUrl
          THEN /\ currentState' = DOWNLOADING_STATUS
               /\ downloader'.url = od'.statusUrl
               /\ eventLoop'.startDownload = eventLoop.startDownload + 1
          ELSE IF manager'.whazzupUrlFromStatus # NoUrl
          THEN /\ currentState' = DOWNLOADING_WHAZZUP
               /\ downloader'.url = manager'.whazzupUrlFromStatus
               /\ eventLoop'.startDownload = eventLoop.startDownload + 1
          ELSE IF od'.whazzupUrl # NoUrl
          THEN /\ currentState' = DOWNLOADING_WHAZZUP
               /\ downloader'.url = od'.whazzupUrl
               /\ eventLoop'.startDownload = eventLoop.startDownload + 1
          ELSE /\ currentState' = NONE
               /\ eventLoop'.startDownload = eventLoop.startDownload
               /\ downloader'.url = downloader.url
               /\ dialogs' <= dialogs]_vars

C4_Witness ==
  /\ lastOp.op = "timeout"
  /\ od.network # ONLINE_NONE
  /\ od.statusUrl # NoUrl
  /\ manager.whazzupUrlFromStatus # NoUrl
  /\ currentState = DOWNLOADING_WHAZZUP
  /\ downloader.url = manager.whazzupUrlFromStatus

\* C5: after a status file without whazzup URL the cycle ends: timer armed, state
\* NONE, time of the update stamped, no signal; after one with a whazzup URL the
\* state is DOWNLOADING_WHAZZUP and that URL is fetched.
C5_StatusFinished ==
  [][(lastOp'.op = "downloadFinished" /\ lastOp'.state = DOWNLOADING_STATUS)
       => IF manager'.whazzupUrlFromStatus = NoUrl
          THEN /\ downloadTimer'.active
               /\ currentState' = NONE
               /\ lastUpdateTime' = now'
               /\ emitted' = <<>>
               /\ eventLoop'.startDownload = eventLoop.startDownload
          ELSE /\ currentState' = DOWNLOADING_WHAZZUP
               /\ downloader'.url = manager'.whazzupUrlFromStatus
               /\ eventLoop'.startDownload = eventLoop.startDownload + 1
               /\ ~downloadTimer'.active
               /\ emitted' = <<>>]_vars

C5_Witness ==
  /\ Finished(DOWNLOADING_STATUS)
  /\ manager.whazzupUrlFromStatus = NoUrl
  /\ od.whazzupUrl = NoUrl
  /\ lastUpdateTime > StartNow
  /\ currentState = NONE

\* C6: after a whazzup file accepted as newer, with no servers URL known, the
\* aircraft cache and the remembered registrations are empty, the only signal is
\* onlineClientAndAtcUpdated(true, true), the timer is armed and the state is NONE.
C6_WhazzupAccepted ==
  (Finished(DOWNLOADING_WHAZZUP) /\ lastOp.accepted
   /\ manager.whazzupVoiceUrlFromStatus = NoUrl)
    => /\ CachesCleared
       /\ emitted = <<SigClientAndAtc>>
       /\ downloadTimer.active
       /\ currentState = NONE

C6_Witness ==
  /\ Finished(DOWNLOADING_WHAZZUP)
  /\ lastOp.accepted
  /\ manager.whazzupVoiceUrlFromStatus = NoUrl
  /\ emitted = <<SigClientAndAtc>>
  /\ manager.clients # <<>>

\* C7: after a whazzup file rejected as not newer no signal is emitted and the
\* aircraft cache is as before, and the cycle ends: timer armed, state NONE, time
\* of the update stamped.
C7_WhazzupStale ==
  [][(lastOp'.op = "downloadFinished" /\ lastOp'.state = DOWNLOADING_WHAZZUP
      /\ ~lastOp'.accepted)
       => /\ emitted' = <<>>
          /\ aircraftCache' = aircraftCache
          /\ downloadTimer'.active
          /\ currentState' = NONE
          /\ lastUpdateTime' = now']_vars

C7_Witness ==
  /\ Finished(DOWNLOADING_WHAZZUP)
  /\ ~lastOp.accepted
  /\ aircraftCache.list # <<>>
  /\ lastUpdateTime > StartNow

\* C8: after an accepted whazzup file, a servers URL known and the last download
\* of the servers less than 15 minutes ago, the state is not
\* DOWNLOADING_WHAZZUP_SERVERS: the cycle ends as without servers URL.
C8_ServersNotDue ==
  (Finished(DOWNLOADING_WHAZZUP) /\ lastOp.accepted
   /\ manager.whazzupVoiceUrlFromStatus # NoUrl
   /\ now - lastServerDownload < MIN_SERVER_DOWNLOAD_INTERVAL_MIN)
    => /\ currentState = NONE
       /\ downloadTimer.active
       /\ CachesCleared
       /\ emitted = <<SigClientAndAtc>>

C8_Witness ==
  /\ Finished(DOWNLOADING_WHAZZUP)
  /\ lastOp.accepted
  /\ manager.whazzupVoiceUrlFromStatus # NoUrl
  /\ lastServerDownload # Epoch
  /\ now - lastServerDownload > 0
  /\ now - lastServerDownload < MIN_SERVER_DOWNLOAD_INTERVAL_MIN
  /\ currentState = NONE

\* C9: after an accepted whazzup file, a servers URL known and the last download
\* of the servers 15 minutes ago or more, the state is DOWNLOADING_WHAZZUP_SERVERS
\* and the servers URL is fetched, no timer armed and no signal emitted.
C9_ServersDue ==
  (Finished(DOWNLOADING_WHAZZUP) /\ lastOp.accepted
   /\ manager.whazzupVoiceUrlFromStatus # NoUrl
   /\ now - lastServerDownload >= MIN_SERVER_DOWNLOAD_INTERVAL_MIN)
    => /\ currentState = DOWNLOADING_WHAZZUP_SERVERS
       /\ downloader.url = manager.whazzupVoiceUrlFromStatus
       /\ eventLoop.startDownload > 0
       /\ ~downloadTimer.active
       /\ emitted = <<>>

\* C10: after the servers file the time of the servers download and the time of
\* the update are now, the timer is armed, the state is NONE, cache and
\* registrations are empty, and the signals are onlineClientAndAtcUpdated(true, true)
\* and then onlineServersUpdated(true, true), once each.
C10_ServersFinished ==
  Finished(DOWNLOADING_WHAZZUP_SERVERS)
    => /\ lastServerDownload = now
       /\ Finalized
       /\ CachesCleared
       /\ emitted = <<SigClientAndAtc, SigServers>>

C10_Witness ==
  /\ Finished(DOWNLOADING_WHAZZUP_SERVERS)
  /\ lastServerDownload > StartNow
  /\ emitted = <<SigClientAndAtc, SigServers>>


\* A URL to start with is known: a status URL or a whazzup URL, configured or from
\* a status file
UrlResolvable ==
  od.statusUrl # NoUrl \/ od.whazzupUrl # NoUrl \/ manager.whazzupUrlFromStatus # NoUrl

\* C11: downloadFailed, in any state, cancels the reply, stops the timer, sets the
\* state NONE and clears the remembered registrations, and then shows the message
\* box without starting anything; closing the message box runs startProcessing at
\* once: no timer is armed, the next download is queued in the same step.
C11_FailureRetryOnAcknowledge ==
  [][/\ lastOp'.op = "downloadFailed"
          => /\ downloader'.reply = NoUrl
             /\ ~downloadTimer'.active
             /\ currentState' = NONE
             /\ simulatorAiRegistrations' = NoRegistrations
             /\ dialogs' = dialogs + 1
             /\ eventLoop' = eventLoop
             /\ downloader'.url = downloader.url
     /\ lastOp'.op = "acknowledge"
          => /\ dialogs' = dialogs - 1
             /\ ~downloadTimer'.active
             /\ downloader'.reply = NoUrl
             /\ IF od.network # ONLINE_NONE /\ UrlResolvable
                THEN /\ currentState' # NONE
                     /\ eventLoop'.startDownload = eventLoop.startDownload + 1
                ELSE /\ currentState' = NONE
                     /\ eventLoop'.startDownload = eventLoop.startDownload]_vars

\* The chain runs again after a failure in DOWNLOADING_WHAZZUP_SERVERS was acknowledged
C11_Witness ==
  /\ lastOp.op = "acknowledge"
  /\ currentState = DOWNLOADING_WHAZZUP
  /\ manager.whazzupVoiceUrlFromStatus # NoUrl
  /\ manager.clients # <<>>
  /\ lastServerDownload = Epoch
  /\ eventLoop.startDownload = 1
  /\ dialogs = 0

\* C12: optionsChanged, in any state, clears the URLs of the status file, stops
\* timer and reply, sets whazzupGzipped to false, clears the client table, the
\* aircraft cache and the remembered registrations, emits the three signals, sets
\* both times to the epoch and runs startDownloadInternal; and the first accepted
\* whazzup file with a servers URL after it is followed by the servers download.
C12_OptionsChangedResets ==
  /\ [][lastOp'.op = "optionsChanged"
          => /\ manager'.whazzupUrlFromStatus = NoUrl
             /\ manager'.whazzupVoiceUrlFromStatus = NoUrl
             /\ downloader'.reply = NoUrl
             /\ ~downloadTimer'.active
             /\ ~whazzupGzipped'
             /\ manager'.clients = <<>>
             /\ aircraftCache'.list = <<>>
             /\ simulatorAiRegistrations' = NoRegistrations
             /\ emitted' = <<SigClientAndAtc, SigServers, SigNetwork>>
             /\ lastUpdateTime' = Epoch
             /\ lastServerDownload' = Epoch
             /\ IF od'.network # ONLINE_NONE /\ (od'.statusUrl # NoUrl \/ od'.whazzupUrl # NoUrl)
                THEN /\ currentState' = (IF od'.statusUrl # NoUrl THEN DOWNLOADING_STATUS
                                         ELSE DOWNLOADING_WHAZZUP)
                     /\ eventLoop'.startDownload = eventLoop.startDownload + 1
                ELSE /\ currentState' = NONE
                     /\ eventLoop'.startDownload = eventLoop.startDownload]_vars
  /\ [](Finished(DOWNLOADING_WHAZZUP) /\ lastOp.accepted
        /\ manager.whazzupVoiceUrlFromStatus # NoUrl /\ lastServerDownload = Epoch
          => /\ currentState = DOWNLOADING_WHAZZUP_SERVERS
             /\ downloader.url = manager.whazzupVoiceUrlFromStatus)

\* optionsChanged while a download was queued
C12_Witness ==
  /\ lastOp.op = "optionsChanged"
  /\ od.network # ONLINE_NONE
  /\ currentState = DOWNLOADING_STATUS
  /\ eventLoop.startDownload = 2
  /\ od.whazzupUrl = NoUrl


CustomNetwork == od.network \in {ONLINE_CUSTOM, ONLINE_CUSTOM_STATUS}

\* The interval of the timer, an int of milliseconds, in whole seconds and the rest
TimerSeconds == downloadTimer.interval \div 1000

TimerRest == downloadTimer.interval % 1000

\* C13: the armed timer has the interval of the reload rule, for all inputs: on the
\* custom networks the configured reload seconds as they are; else, with the
\* configuration value -1, the larger of the whazzup reload minutes times 60 and 60;
\* else the larger of the configuration value and 60; so at least 60 seconds on
\* every other network. The timer counts in milliseconds and keeps them as int.
C13_TimerInterval ==
  downloadTimer.active =>
    /\ ~CustomNetwork => TimerSeconds >= 60
    /\ TimerRest = 0
    /\ CustomNetwork => TimerSeconds = od.reloadTimeSeconds
    /\ ~CustomNetwork /\ od.reloadTimeSecondsConfig = -1 =>
         TimerSeconds =
           (IF manager.reloadMinutesFromWhazzup > 1
            THEN manager.reloadMinutesFromWhazzup * 60 ELSE 60)
    /\ ~CustomNetwork /\ od.reloadTimeSecondsConfig # -1 =>
         TimerSeconds =
           (IF od.reloadTimeSecondsConfig > 60 THEN od.reloadTimeSecondsConfig ELSE 60)


\* The last step was a call of getAircraft; what it returned is aircraftCache.list
Queried == lastOp.op = "getAircraft"

Range(list) == {list[i] : i \in DOMAIN list}

\* C14: of two calls of getAircraft with lazy true, one right after the other, with
\* the same rectangle and layer and the same registrations in the simulator, the
\* cache holding aircraft before the first, both return the same list and none
\* asks the database.
C14_LazyTwiceSame ==
  [][(/\ Queried /\ lastOp.query.lazy /\ lastOp.query.nonEmpty
      /\ lastOp'.op = "getAircraft" /\ lastOp'.query.lazy
      /\ lastOp'.query.rect = lastOp.query.rect
      /\ lastOp'.query.mapLayer = lastOp.query.mapLayer
      /\ DOMAIN lastOp'.query.regs = DOMAIN lastOp.query.regs)
       => /\ aircraftCache'.list = aircraftCache.list
          /\ emitted = <<>>
          /\ emitted' = <<>>]_vars

\* An online aircraft has the registration of a simulator aircraft that is not
\* more than 30 nautical miles away
Close(aircraft, regs) ==
  /\ aircraft.registration \in DOMAIN regs
  /\ distanceMeterTo(aircraft.position, regs[aircraft.registration]) <= 30 * 1852

\* The rows of the client table in the rectangles asked for
InQueried(aircraft, rect) ==
  \E i \in DOMAIN splitAtAntiMeridian(rect) :
    InRect(splitAtAntiMeridian(rect)[i], aircraft.position)

\* The list holds the rows in the rectangles but those close to a simulator aircraft
Deduped(list, regs, rect, clients) ==
  /\ \A aircraft \in Range(list) : ~Close(aircraft, regs)
  /\ \A aircraft \in Range(clients) :
       InQueried(aircraft, rect) /\ ~Close(aircraft, regs) => aircraft \in Range(list)

\* C15 as claimed: every list that getAircraft returns holds no aircraft close to
\* a simulator aircraft of the same registration, as the simulator is at the call,
\* and holds every other aircraft.
C15_DedupeEveryResult ==
  Queried => Deduped(aircraftCache.list, lastOp.query.regs, lastOp.query.rect, manager.clients)

\* C15: every list that getAircraft has just read from the database holds no
\* aircraft within 30 nautical miles (inclusive) of a simulator aircraft of the same
\* registration, as the simulator is at the call, and holds every other aircraft of
\* the rectangles asked for.
C15_DedupeFreshResult ==
  Queried /\ emitted # <<>> =>
    Deduped(aircraftCache.list, lastOp.query.regs, lastOp.query.rect, manager.clients)

\* A list just read: N2 at exactly 30 nautical miles left out, N3 at 36 kept
C15_Witness ==
  /\ Queried /\ emitted # <<>>
  /\ "N2" \in DOMAIN lastOp.query.regs /\ lastOp.query.regs["N2"] = 0
  /\ "N3" \in DOMAIN lastOp.query.regs /\ lastOp.query.regs["N3"] = 0
  /\ Client(2, "N2", 5) \in Range(manager.clients)
  /\ Client(2, "N2", 5) \notin Range(aircraftCache.list)
  /\ Client(3, "N3", 6) \in Range(aircraftCache.list)

\* C17: a call of getAircraft that finds other registrations in the simulator than
\* the remembered ones clears the cache, asks the database even if lazy, and
\* remembers the registrations it used.
C17_KeyChangeRequeries ==
  [][lastOp'.op = "getAircraft"
     /\ DOMAIN lastOp'.query.regs # DOMAIN simulatorAiRegistrations.value
       => /\ emitted' # <<>>
          /\ simulatorAiRegistrations'.value = lastOp'.query.regs
          /\ Deduped(aircraftCache'.list, lastOp'.query.regs, lastOp'.query.rect,
                     manager.clients)]_vars

\* C20: after a download cycle that the timer started and that ended without new
\* data, a lazy call of getAircraft returns what the lazy call right before the
\* cycle returned, the simulator having the same registrations, at least one.
C20_NoDataCycleKeepsResult ==
  [][(/\ lastOp.cycle.stage = "done"
      /\ lastOp'.op = "getAircraft" /\ lastOp'.query.lazy
      /\ DOMAIN lastOp'.query.regs = lastOp.cycle.keys
      /\ lastOp.cycle.keys # {})
       => aircraftCache'.list = lastOp.cycle.result]_vars


\* The rows of the client table that a query for the rectangle appends
Rows(regs, rect, clients) ==
  {i \in DOMAIN clients : InQueried(clients[i], rect) /\ ~Close(clients[i], regs)}

\* C16: the aircraft cache, and so every list getAircraft returns, never holds more
\* than 5000 aircraft, whether the rows came from one rectangle or from two; the
\* query loop stops appending at 5000, so the list never was longer within the
\* call; a list just read holds all rows of the query up to 5000 of them.
C16_RowCeiling ==
  /\ Len(aircraftCache.list) <= 5000
  /\ Queried => lastOp.query.appended <= 5000
  /\ Queried /\ emitted # <<>> =>
       LET rows == Cardinality(Rows(lastOp.query.regs, lastOp.query.rect, manager.clients))
       IN /\ Len(aircraftCache.list) = (IF rows > 5000 THEN 5000 ELSE rows)
          /\ \A aircraft \in Range(aircraftCache.list) :
               /\ InQueried(aircraft, lastOp.query.rect)
               /\ ~Close(aircraft, lastOp.query.regs)


\* C18: every whazzup file that was accepted is followed, at once or later, by the
\* signal that clients and ATC were updated together with empty caches, whatever
\* happens to the download of servers.txt, if every reply ends and every message
\* box is closed.
C18_AcceptedLeadsToSignal ==
  (Finished(DOWNLOADING_WHAZZUP) /\ lastOp.accepted)
    ~> (SigClientAndAtc \in Range(emitted) /\ CachesCleared)

\* The download chain was started with a network and a URL
Polling == lastOp.op # "init" /\ od.network # ONLINE_NONE /\ UrlResolvable

\* C19: started with a network and a URL the downloads never end: whenever the
\* state is NONE and no message box is open the timer is armed; and, if the options
\* stay so, a queued download is started again and again, provided every reply
\* ends and every message box is closed.
C19_PollingGoesOn ==
  /\ [](Polling /\ currentState = NONE /\ dialogs = 0 => downloadTimer.active)
  /\ (<>[]Polling => []<>(lastOp.op = "startDownload"))

\* A download started after a cycle that had ended in a failure was taken up again
C19_Witness ==
  /\ Polling
  /\ lastOp.op = "startDownload"
  /\ downloader.reply = WhazzupUrlStatus
  /\ currentState = DOWNLOADING_WHAZZUP
  /\ manager.clients # <<>>
  /\ lastUpdateTime = Epoch

====
